---- MODULE Spec2Model ----
(***************************************************************************)
(* Model of sportsbet/soccer/optimization.py: the season walk-forward      *)
(* splitter (SeasonTimeSeriesSplit), the backtest driver                   *)
(* (BettingAgent.backtest) and the capital simulation                      *)
(* (BettingAgent.calculate_backtest_stats).                                *)
(*                                                                         *)
(* Sample positions are 0-based as in the code; a day column is a TLA+     *)
(* sequence, so the day of position i is days[i + 1].                      *)
(*                                                                         *)
(* Three specifications: Spec (the splitter: one generator stepped one     *)
(* next() at a time, and get_n_splits), SpecBacktest (backtest on a loaded *)
(* data set) and SpecStats (calculate_backtest_stats replaying a list of   *)
(* fold results, one loop iteration per step). The simulation's floats are *)
(* modelled as exact fractions. The estimator, total_profit_score and the  *)
(* progress bar are collaborators outside the file: predictions and scores *)
(* are inputs, the progress bar has no effect on the state.                *)
(***************************************************************************)
EXTENDS Integers, Sequences, FiniteSets, TLC

VARIABLES
    X,                \* the day column X[:, 0] of the loaded data set
    test_year,        \* SeasonTimeSeriesSplit.test_year
    max_day_range,    \* SeasonTimeSeriesSplit.max_day_range
    days_,            \* SeasonTimeSeriesSplit.days_ (<<>> while unset)
    pc,               \* position of the split generator
    season_indices,   \* local of the running split generator
    start_ind,        \* local of the running split generator
    pos,              \* next element of season_indices the for loop visits (1-based)
    yielded,          \* the pairs the generator has yielded so far
    gns,              \* outcome of the last get_n_splits call
    n_splits,         \* value returned by the last get_n_splits call
    backtest_results_,\* BettingAgent.backtest_results_
    bt,               \* outcome of the last backtest call
    fit_log,          \* per fold, the rows the estimator was fitted, validated and tested on
    bet_factor,       \* argument of calculate_backtest_stats
    credit_exponent,  \* argument of calculate_backtest_stats
    fold_scores,      \* what total_profit_score returns for each fold result
    spc,              \* position of calculate_backtest_stats
    fold_no,          \* the fold result the for loop visits next (1-based)
    capital,          \* local of calculate_backtest_stats
    bet_amount,       \* local of calculate_backtest_stats
    statistics,       \* local of calculate_backtest_stats: the rows emitted so far
    precisions,       \* local of calculate_backtest_stats
    y_test_all,       \* local of calculate_backtest_stats
    y_pred_all,       \* local of calculate_backtest_stats
    profit_per_bet_,  \* BettingAgent.profit_per_bet_
    precision_        \* BettingAgent.precision_

dataVars == <<X, test_year, max_day_range>>
splitVars == <<days_, pc, season_indices, start_ind, pos, yielded, gns, n_splits>>
agentVars == <<backtest_results_, bt, fit_log>>
statsVars == <<bet_factor, credit_exponent, fold_scores, spc, fold_no, capital,
               bet_amount, statistics, precisions, y_test_all, y_pred_all,
               profit_per_bet_, precision_>>

vars == <<dataVars, splitVars, agentVars, statsVars>>

----------------------------------------------------------------------------
(* Bounds of the model *)

MaxLen == 4        \* longest day column
DaySpan == 5       \* day values range over DayLo .. DayLo + DaySpan
MaxYear == 2       \* test_year ranges over 1 .. MaxYear
MaxRange == 3      \* max_day_range ranges over -1 .. MaxRange
MaxOther == 3      \* longest day column where calls on two data sets interleave
MaxRows == 4       \* longest data set a backtest runs on
MaxFolds == 3      \* longest list of fold results the simulation replays
MaxLoss == 2       \* total_profit_score ranges over -MaxLoss .. 1
MaxExponent == 1   \* credit_exponent ranges over 0 .. MaxExponent

(* Program constant: the length of a season in days *)
SeasonLength == 365

DayLo == SeasonLength - 2
DayValues == DayLo .. (DayLo + DaySpan)

SortedColumns(n) ==
    {s \in [1..n -> DayValues] : \A i \in 1..(n - 1) : s[i] <= s[i + 1]}

Columns(maxlen) == UNION {SortedColumns(n) : n \in 0..maxlen}

----------------------------------------------------------------------------
(* Helpers *)

\* np.arange(a, b): the positions a, a+1, ..., b-1 (empty when b <= a)
Arange(a, b) == [k \in 1..(IF b > a THEN b - a ELSE 0) |-> a + k - 1]

\* days[i] for a 0-based position i
Day(days, i) == days[i + 1]

Range(s) == {s[k] : k \in 1..Len(s)}

\* check_array(X, dtype=None): rejects an array with no sample
check_array(x) == IF Len(x) = 0 THEN "ValueError" ELSE "ok"

\* variant: the season has no upper end
SeasonIndices_open(days, year) ==
    LET start_day == SeasonLength * (year - 1)
        InSeason(i) == Day(days, i) >= start_day
    IN SelectSeq(Arange(0, Len(days)), InSeason)

\* indices[(days >= start_day) & (days < end_day)]
SeasonIndices(days, year) ==
    LET start_day == SeasonLength * (year - 1)
        end_day == SeasonLength * year
        InSeason(i) == Day(days, i) >= start_day /\ Day(days, i) < end_day
    IN SelectSeq(Arange(0, Len(days)), InSeason)

\* variant: a fold closes only once the gap exceeds mdr
GapReached_strict(days, ind, start, mdr) == Day(days, ind) - Day(days, start) > mdr

\* the condition that closes a fold
GapReached(days, ind, start, mdr) == Day(days, ind) - Day(days, start) >= mdr

\* The for loop of split resumed at element j of season: the first element
\* at or after j whose gap to the anchor reaches mdr, or 0 when the loop
\* runs to its end without yielding, or -1 when days is too short for a
\* position the loop reads (an IndexError).
RECURSIVE NextHit(_, _, _, _, _)
NextHit(days, season, start, j, mdr) ==
    IF j > Len(season) THEN 0
    ELSE IF season[j] >= Len(days) \/ start >= Len(days) THEN -1
    ELSE IF GapReached(days, season[j], start, mdr) THEN j
    ELSE NextHit(days, season, start, j + 1, mdr)

train_indices_of(start, ind) == Arange(0, start)

\* variants of test_indices: the anchor left out, the closing index included
test_indices_skip(start, ind) == Arange(start + 1, ind)
test_indices_closed(start, ind) == Arange(start, ind + 1)
test_indices_of(start, ind) == Arange(start, ind)

\* variant of the count that never moves the anchor
RECURSIVE CountSplits_fixed_anchor(_, _, _, _, _, _)
CountSplits_fixed_anchor(days, season, start, j, mdr, n) ==
    IF j > Len(season) THEN n
    ELSE IF GapReached(days, season[j], start, mdr)
         THEN CountSplits_fixed_anchor(days, season, start, j + 1, mdr, n + 1)
         ELSE CountSplits_fixed_anchor(days, season, start, j + 1, mdr, n)

\* The for loop of get_n_splits from element j on, with the running count n
RECURSIVE CountSplits(_, _, _, _, _, _)
CountSplits(days, season, start, j, mdr, n) ==
    IF j > Len(season) THEN n
    ELSE IF GapReached(days, season[j], start, mdr)
         THEN CountSplits(days, season, season[j], j + 1, mdr, n + 1)
         ELSE CountSplits(days, season, start, j + 1, mdr, n)

----------------------------------------------------------------------------
(* Initial state: a splitter has been constructed for a loaded data set *)

SplitterIdle ==
    /\ days_ = <<>>
    /\ pc = "none"
    /\ season_indices = <<>>
    /\ start_ind = 0
    /\ pos = 0
    /\ yielded = <<>>
    /\ gns = "none"
    /\ n_splits = 0

AgentIdle ==
    /\ backtest_results_ = <<>>
    /\ bt = "none"
    /\ fit_log = <<>>

StatsIdle ==
    /\ spc = "none"
    /\ fold_no = 0
    /\ capital = <<0, 1>>
    /\ bet_amount = <<0, 1>>
    /\ statistics = <<>>
    /\ precisions = <<>>
    /\ y_test_all = <<>>
    /\ y_pred_all = <<>>
    /\ profit_per_bet_ = "unset"
    /\ precision_ = "unset"

Init ==
    /\ X \in Columns(MaxLen)
    /\ test_year \in 1..MaxYear
    /\ max_day_range \in (-1)..MaxRange
    /\ SplitterIdle
    /\ AgentIdle
    /\ bet_factor = <<2, 1>>
    /\ credit_exponent = 0
    /\ fold_scores = <<>>
    /\ StatsIdle

----------------------------------------------------------------------------
(* SeasonTimeSeriesSplit *)

\* split(X): creates the generator; its body runs at the first next()
SplitCall ==
    /\ pc' = "created"
    /\ season_indices' = <<>>
    /\ start_ind' = 0
    /\ pos' = 0
    /\ yielded' = <<>>
    /\ UNCHANGED <<dataVars, agentVars, statsVars, days_, gns, n_splits>>

\* first next(): _generate_season_indices fails in check_array
SplitStartInvalid ==
    /\ pc = "created"
    /\ check_array(X) /= "ok"
    /\ pc' = check_array(X)
    /\ UNCHANGED <<dataVars, agentVars, statsVars, days_, season_indices,
                   start_ind, pos, yielded, gns, n_splits>>

\* variant: an empty season ends the iteration without an error
SplitStartEmpty_silent ==
    /\ pc = "created"
    /\ check_array(X) = "ok"
    /\ SeasonIndices(X, test_year) = <<>>
    /\ days_' = X
    /\ season_indices' = <<>>
    /\ pc' = "done"
    /\ UNCHANGED <<dataVars, agentVars, statsVars, start_ind, pos, yielded,
                   gns, n_splits>>

\* first next(): season_indices[0] on an empty season
SplitStartEmpty ==
    /\ pc = "created"
    /\ check_array(X) = "ok"
    /\ SeasonIndices(X, test_year) = <<>>
    /\ days_' = X
    /\ season_indices' = <<>>
    /\ pc' = "IndexError"
    /\ UNCHANGED <<dataVars, agentVars, statsVars, start_ind, pos, yielded,
                   gns, n_splits>>

\* The loop of the generator from element j with anchor start, on the
\* days the splitter holds: it yields a pair or runs to its end.
SplitLoop(days, season, start, j) ==
    LET h == NextHit(days, season, start, j, max_day_range) IN
    /\ days_' = days
    /\ season_indices' = season
    /\ IF h = -1
       THEN /\ pc' = "IndexError"
            /\ start_ind' = start
            /\ pos' = j
            /\ yielded' = yielded
       ELSE IF h = 0
       THEN /\ pc' = "done"
            /\ start_ind' = start
            /\ pos' = Len(season) + 1
            /\ yielded' = yielded
       ELSE /\ pc' = "running"
            /\ start_ind' = season[h]
            /\ pos' = h + 1
            /\ yielded' = Append(yielded,
                   [train_indices |-> train_indices_of(start, season[h]),
                    test_indices |-> test_indices_of(start, season[h])])
    /\ UNCHANGED <<dataVars, agentVars, statsVars, gns, n_splits>>

\* first next(): the season is not empty
SplitStart ==
    /\ pc = "created"
    /\ check_array(X) = "ok"
    /\ SeasonIndices(X, test_year) /= <<>>
    /\ LET season == SeasonIndices(X, test_year)
       IN SplitLoop(X, season, season[1], 1)

\* a later next(): the loop resumes after the yield
SplitNext ==
    /\ pc = "running"
    /\ SplitLoop(days_, season_indices, start_ind, pos)

\* get_n_splits(x) on the splitter
GetNSplitsOn(x) ==
    /\ IF check_array(x) /= "ok"
       THEN /\ gns' = check_array(x)
            /\ UNCHANGED <<days_, n_splits>>
       ELSE LET season == SeasonIndices(x, test_year) IN
            /\ days_' = x
            /\ IF season = <<>>
               THEN /\ gns' = "IndexError"
                    /\ UNCHANGED n_splits
               ELSE /\ gns' = "ok"
                    /\ n_splits' = CountSplits(x, season, season[1], 1,
                                               max_day_range, 0)
    /\ UNCHANGED <<dataVars, agentVars, statsVars, pc, season_indices,
                   start_ind, pos, yielded>>

\* get_n_splits(X)
GetNSplits == GetNSplitsOn(X)

\* The other data sets: up to MaxOther matches, all on one day
OtherColumns ==
    {[k \in 1..n |-> d] : n \in 0..MaxOther, d \in DayValues}

\* get_n_splits on another data set, on the same splitter object
GetNSplitsOther == \E x \in OtherColumns \ {X} : GetNSplitsOn(x)

Next ==
    \/ SplitCall
    \/ SplitStartInvalid
    \/ SplitStartEmpty
    \/ SplitStart
    \/ SplitNext
    \/ GetNSplits

Spec == Init /\ [][Next]_vars

\* The splitter shared with calls on another data set
NextShared ==
    \/ SplitCall
    \/ SplitStartInvalid
    \/ SplitStartEmpty
    \/ SplitStart
    \/ SplitNext
    \/ GetNSplits
    \/ GetNSplitsOther

InitShared ==
    /\ X \in Columns(MaxOther)
    /\ test_year \in 1..MaxYear
    /\ max_day_range \in (-1)..MaxRange
    /\ SplitterIdle
    /\ AgentIdle
    /\ bet_factor = <<2, 1>>
    /\ credit_exponent = 0
    /\ fold_scores = <<>>
    /\ StatsIdle

SpecShared == InitShared /\ [][NextShared]_vars

----------------------------------------------------------------------------
(* BettingAgent.backtest *)

\* list(SeasonTimeSeriesSplit(...).split(X)) from element j of season on
RECURSIVE SplitRest(_, _, _, _, _)
SplitRest(days, season, start, j, mdr) ==
    LET h == NextHit(days, season, start, j, mdr) IN
    IF h = 0 THEN <<>>
    ELSE <<[train_indices |-> train_indices_of(start, season[h]),
            test_indices |-> test_indices_of(start, season[h])]>>
         \o SplitRest(days, season, season[h], h + 1, mdr)

\* list(SeasonTimeSeriesSplit(test_year, max_day_range).split(X)): the
\* outcome and, when there is no error, the pairs
SplitList(days, year, mdr) ==
    IF check_array(days) /= "ok"
    THEN [outcome |-> check_array(days), pairs |-> <<>>]
    ELSE LET season == SeasonIndices(days, year) IN
         IF season = <<>>
         THEN [outcome |-> "IndexError", pairs |-> <<>>]
         ELSE [outcome |-> "ok",
               pairs |-> SplitRest(days, season, season[1], 1, mdr)]

\* validation_size is None or a proportion num/den
ValidationSizes == {<<>>, <<1, 2>>, <<1, 3>>}

\* variant: the validation rows are cut from the head of the training part
TrainTestSplit_head(rows, size) ==
    LET n == Len(rows)
        n_test == (n * size[1] + size[2] - 1) \div size[2]
        n_train == n - n_test
    IN IF n_train = 0
       THEN [outcome |-> "ValueError", train |-> <<>>, val |-> <<>>]
       ELSE [outcome |-> "ok",
             train |-> SubSeq(rows, n_test + 1, n),
             val |-> SubSeq(rows, 1, n_test)]

\* train_test_split(rows, test_size=num/den, shuffle=False): the last
\* ceil(n * num / den) rows are the validation rows; an empty training
\* part is rejected
TrainTestSplit(rows, size) ==
    LET n == Len(rows)
        n_test == (n * size[1] + size[2] - 1) \div size[2]
        n_train == n - n_test
    IN IF n_train = 0
       THEN [outcome |-> "ValueError", train |-> <<>>, val |-> <<>>]
       ELSE [outcome |-> "ok",
             train |-> SubSeq(rows, 1, n_train),
             val |-> SubSeq(rows, n_train + 1, n)]

\* a[indices] for positions counted from 0
Take(a, indices) == [k \in 1..Len(indices) |-> a[indices[k] + 1]]

\* The cross-validation loop from fold k on. y holds the labels and p the
\* score the fitted estimator predicts for each row (every row is in at
\* most one test fold); the estimator itself is an external collaborator.
RECURSIVE RunFolds(_, _, _, _, _, _, _)
RunFolds(indices, k, y, p, size, results, log) ==
    IF k > Len(indices)
    THEN [outcome |-> "ok", results |-> results, log |-> log]
    ELSE LET train_indices == indices[k].train_indices
             test_indices == indices[k].test_indices
             tts == IF size = <<>>
                    THEN [outcome |-> "ok", train |-> train_indices, val |-> <<>>]
                    ELSE TrainTestSplit(train_indices, size)
         IN IF tts.outcome /= "ok"
            THEN [outcome |-> tts.outcome, results |-> results, log |-> log]
            ELSE RunFolds(indices, k + 1, y, p, size,
                     Append(results, [y_test |-> Take(y, test_indices),
                                      y_pred |-> Take(p, test_indices)]),
                     Append(log, [validation_size |-> size, fit |-> tts.train,
                                  val |-> tts.val, test |-> test_indices]))

Labels == {0, 1}
PredictedScores == {-1, 1}

\* backtest(estimator, fit_params, predicted_result, test_year, max_day_range).
\* An error of the splitter leaves before backtest_results_ is assigned;
\* len(indices) is only handed to the progress bar, which is constructed
\* here and updated once per completed fold.
\* The labels of rows outside every test fold are never read, so they are
\* drawn for the test rows only. The estimator predicts one score for every
\* row, as the default DummyClassifier(strategy='constant') does.
TestRows(pairs) ==
    UNION {{t + 1 : t \in Range(pairs[k].test_indices)} : k \in 1..Len(pairs)}

Backtest ==
    \E indices \in {SplitList(X, test_year, max_day_range)} :
       IF indices.outcome /= "ok"
       THEN /\ bt' = indices.outcome
            /\ UNCHANGED <<backtest_results_, fit_log>>
       ELSE \E y \in [TestRows(indices.pairs) -> Labels],
               score \in PredictedScores, size \in ValidationSizes :
                LET p == [t \in TestRows(indices.pairs) |-> score]
                    run == RunFolds(indices.pairs, 1, y, p, size, <<>>, <<>>)
                IN
                /\ bt' = run.outcome
                /\ backtest_results_' = run.results
                /\ fit_log' = run.log

BacktestStep == Backtest /\ UNCHANGED <<dataVars, splitVars, statsVars>>

InitBacktest ==
    /\ X \in Columns(MaxRows)
    /\ test_year \in 1..MaxYear
    /\ max_day_range \in (-1)..MaxRange
    /\ SplitterIdle
    /\ AgentIdle
    /\ bet_factor = <<2, 1>>
    /\ credit_exponent = 0
    /\ fold_scores = <<>>
    /\ StatsIdle

NextBacktest == BacktestStep

SpecBacktest == InitBacktest /\ [][NextBacktest]_vars

----------------------------------------------------------------------------
(* Exact arithmetic for the capital simulation: a real number is a         *)
(* fraction <<numerator, denominator>> in lowest terms with a positive     *)
(* denominator.                                                            *)

Abs(a) == IF a < 0 THEN -a ELSE a

RECURSIVE GCD(_, _)
GCD(a, b) == IF b = 0 THEN a ELSE GCD(b, a % b)

Rat(n, d) == LET g == GCD(Abs(n), d) IN <<n \div g, d \div g>>

Zero == <<0, 1>>
One == <<1, 1>>
FromInt(k) == <<k, 1>>

RAdd(a, b) == Rat(a[1] * b[2] + b[1] * a[2], a[2] * b[2])
RMul(a, b) == Rat(a[1] * b[1], a[2] * b[2])
RDivInt(a, k) == Rat(a[1], a[2] * k)
RLess(a, b) == a[1] * b[2] < b[1] * a[2]

RECURSIVE RPow(_, _)
RPow(a, e) == IF e = 0 THEN One ELSE RMul(a, RPow(a, e - 1))

RECURSIVE SumSeq(_)
SumSeq(s) == IF s = <<>> THEN 0 ELSE Head(s) + SumSeq(Tail(s))

----------------------------------------------------------------------------
(* BettingAgent.calculate_backtest_stats *)

\* (y_pred > 0).astype(int)
Binarize(y_pred) == [j \in 1..Len(y_pred) |-> IF y_pred[j] > 0 THEN 1 ELSE 0]

\* precision_score(y_test, y_pred_bin): true positives over predicted positives
precision_score(y_test, y_pred_bin) ==
    Rat(SumSeq([j \in 1..Len(y_test) |-> y_test[j] * y_pred_bin[j]]),
        SumSeq(y_pred_bin))

\* variant: the per-bet score is not scaled by the stake
Profit_unit_stake(bet, score, n_bets) ==
    IF n_bets > 0 THEN RDivInt(FromInt(score), n_bets) ELSE Zero

\* bet_amount * total_profit_score(y_test, y_pred) / n_bets if n_bets > 0 else 0.0
Profit(bet, score, n_bets) ==
    IF n_bets > 0 THEN RDivInt(RMul(bet, FromInt(score)), n_bets) ELSE Zero

\* variant: a fold without gain raises the stake too
AdjustBet_loss_or_tie(bet, profit, factor) ==
    IF RLess(Zero, profit) THEN One ELSE RMul(bet, factor)

\* variant: a fold with zero profit leaves the stake as it is
AdjustBet_keep_on_tie(bet, profit, factor) ==
    IF RLess(profit, Zero) THEN RMul(bet, factor)
    ELSE IF profit = Zero THEN bet ELSE One

\* bet_amount * bet_factor if profit < 0.0 else 1.0
AdjustBet(bet, profit, factor) ==
    IF RLess(profit, Zero) THEN RMul(bet, factor) ELSE One

\* variant: the credit buffer is left out of the ceiling
MaxCredit_no_buffer(cap, factor, exponent) == cap

\* capital + bet_factor ** credit_exponent
MaxCredit(cap, factor, exponent) == RAdd(cap, RPow(factor, exponent))

\* variant: the ceiling is never applied
ClampBet_off(bet, max_credit) == bet

\* if bet_amount > max_credit: bet_amount = max_credit
ClampBet(bet, max_credit) == IF RLess(max_credit, bet) THEN max_credit ELSE bet

\* variant: the loop stops on any stake that is not positive
Ruined_nonpositive(bet) == ~RLess(Zero, bet)

\* if bet_amount == 0: break
Ruined(bet) == bet = Zero

\* variant: the predictions are stacked at the other end than the labels
Accumulate_mispaired(y_test, y_pred, test_all, pred_all) ==
    [y_test_all |-> y_test \o test_all, y_pred_all |-> pred_all \o y_pred]

\* np.hstack((y_test, y_test_all)), np.hstack((y_pred, y_pred_all))
Accumulate(y_test, y_pred, test_all, pred_all) ==
    [y_test_all |-> y_test \o test_all, y_pred_all |-> y_pred \o pred_all]

\* np.nanmean(precisions): nan when no precision is defined
NanMean(ps) ==
    LET defined == SelectSeq(ps, LAMBDA q : q /= "nan")
        RECURSIVE Total(_)
        Total(qs) == IF qs = <<>> THEN Zero ELSE RAdd(Head(qs), Total(Tail(qs)))
    IN IF defined = <<>> THEN "nan" ELSE RDivInt(Total(defined), Len(defined))

\* calculate_backtest_stats(bet_factor, credit_exponent) is entered
StatsCall ==
    /\ spc = "none"
    /\ spc' = IF backtest_results_ = <<>> THEN "finish" ELSE "loop"
    /\ fold_no' = 1
    /\ capital' = One
    /\ bet_amount' = One
    /\ statistics' = <<>>
    /\ precisions' = <<>>
    /\ y_test_all' = <<>>
    /\ y_pred_all' = <<>>
    /\ UNCHANGED <<dataVars, splitVars, agentVars, bet_factor, credit_exponent,
                   fold_scores, profit_per_bet_, precision_>>

\* one iteration of the loop over backtest_results_
StatsStep ==
    /\ spc = "loop"
    /\ LET y_test == backtest_results_[fold_no].y_test
           y_pred == backtest_results_[fold_no].y_pred
           y_pred_bin == Binarize(y_pred)
           n_bets == SumSeq(y_pred_bin)
           n_matches == Len(y_pred)
           precision == IF n_bets > 0 THEN precision_score(y_test, y_pred_bin)
                        ELSE "nan"
           profit == Profit(bet_amount, fold_scores[fold_no], n_bets)
           new_capital == RAdd(capital, profit)
           max_credit == MaxCredit(new_capital, bet_factor, credit_exponent)
           new_bet == ClampBet(AdjustBet(bet_amount, profit, bet_factor), max_credit)
           stacked == Accumulate(y_test, y_pred, y_test_all, y_pred_all)
       IN /\ y_test_all' = stacked.y_test_all
          /\ y_pred_all' = stacked.y_pred_all
          /\ precisions' = Append(precisions, precision)
          /\ capital' = new_capital
          /\ bet_amount' = new_bet
          /\ statistics' = Append(statistics,
                 [capital |-> new_capital, profit |-> profit,
                  bet_amount |-> new_bet, n_bets |-> n_bets,
                  n_matches |-> n_matches, precision |-> precision])
          /\ fold_no' = fold_no + 1
          /\ spc' = IF Ruined(new_bet) \/ fold_no = Len(backtest_results_)
                    THEN "finish" ELSE "loop"
    /\ UNCHANGED <<dataVars, splitVars, agentVars, bet_factor, credit_exponent,
                   fold_scores, profit_per_bet_, precision_>>

\* after the loop: the aggregates. total_profit_score of the concatenated
\* arrays is the scoring collaborator's answer; with no prediction at all
\* the division is by zero (nan for a numpy score, an error for a plain one).
StatsFinish ==
    /\ spc = "finish"
    /\ \E score \in (-MaxLoss)..1 :
          IF Len(y_pred_all) > 0
          THEN /\ profit_per_bet_' = Rat(score, Len(y_pred_all))
               /\ precision_' = NanMean(precisions)
               /\ spc' = "done"
          ELSE \/ /\ profit_per_bet_' = "nan"
                  /\ precision_' = NanMean(precisions)
                  /\ spc' = "done"
               \/ /\ spc' = "ZeroDivisionError"
                  /\ UNCHANGED <<profit_per_bet_, precision_>>
    /\ UNCHANGED <<dataVars, splitVars, agentVars, bet_factor, credit_exponent,
                   fold_scores, fold_no, capital, bet_amount, statistics,
                   precisions, y_test_all, y_pred_all>>

\* Fold results a backtest can leave behind: an empty test fold, a fold
\* with no positive prediction, folds with one and with two bets
FoldShapes ==
    {[y_test |-> <<>>, y_pred |-> <<>>],
     [y_test |-> <<0>>, y_pred |-> <<-1>>],
     [y_test |-> <<1>>, y_pred |-> <<1>>],
     [y_test |-> <<0, 1>>, y_pred |-> <<1, 1>>]}

BetFactors == {<<2, 1>>, <<3, 2>>}

\* total_profit_score of a fold; it is not read for a fold without bets
Scores(fold) ==
    IF SumSeq(Binarize(fold.y_pred)) = 0 THEN {0} ELSE (-MaxLoss)..1

InitStats ==
    /\ X = <<>>
    /\ test_year = 1
    /\ max_day_range = 1
    /\ SplitterIdle
    /\ backtest_results_ \in UNION {[1..n -> FoldShapes] : n \in 0..MaxFolds}
    /\ bt = "ok"
    /\ fit_log = <<>>
    /\ bet_factor \in BetFactors
    /\ credit_exponent \in 0..MaxExponent
    /\ fold_scores \in {f \in [1..Len(backtest_results_) -> (-MaxLoss)..1] :
                          \A k \in 1..Len(backtest_results_) :
                              f[k] \in Scores(backtest_results_[k])}
    /\ StatsIdle

NextStats ==
    \/ StatsCall
    \/ StatsStep
    \/ StatsFinish

SpecStats == InitStats /\ [][NextStats]_vars

----------------------------------------------------------------------------
(* Properties of the splitter, checked under Spec *)

Pairs == 1..Len(yielded)

WindowEmpty == Len(X) = 0 \/ SeasonIndices(X, test_year) = <<>>

SplitEnded == pc \notin {"none", "created", "running"}

\* C1: in every yielded pair each train position has a day strictly less
\* than the day of every test position (hence than the smallest test day),
\* and train and test share no position; max_day_range <= 0 included.
C1_NoLookAhead ==
    \A k \in Pairs :
        LET train == Range(yielded[k].train_indices)
            test == Range(yielded[k].test_indices)
        IN /\ \A i \in train : \A j \in test : Day(X, i) < Day(X, j)
           /\ train \cap test = {}

\* C2: once split(X) is exhausted, the number of pairs it yielded is the
\* number get_n_splits(X) returned for the same X and parameters.
C2_CountAgrees ==
    (pc = "done" /\ gns = "ok") => n_splits = Len(yielded)

C2_Witness ==
    pc = "done" /\ gns = "ok" /\ Len(yielded) >= 2 /\ max_day_range >= 1

\* C3 as stated: with an empty season window split and get_n_splits both
\* end in the dedicated EmptyWindowError.
C3_EmptyWindowError ==
    WindowEmpty =>
        /\ SplitEnded => pc = "EmptyWindowError"
        /\ gns /= "none" => gns = "EmptyWindowError"

\* C3 as amended: with an empty season window split (at its first next())
\* and get_n_splits both end in an exception and nothing is yielded or
\* returned: IndexError from season_indices[0] when X has samples,
\* ValueError from check_array when X has none.
C3_EmptyWindowFails ==
    WindowEmpty =>
        /\ SplitEnded =>
              /\ pc = (IF Len(X) = 0 THEN "ValueError" ELSE "IndexError")
              /\ yielded = <<>>
        /\ gns /= "none" =>
              /\ gns = (IF Len(X) = 0 THEN "ValueError" ELSE "IndexError")
              /\ n_splits = 0

C3_Witness ==
    WindowEmpty /\ Len(X) > 0 /\ pc = "IndexError" /\ gns = "IndexError"

\* C8: with max_day_range <= 0 every yielded test fold has exactly one
\* position.
C8_SingletonFolds ==
    max_day_range <= 0 =>
        \A k \in Pairs : Len(yielded[k].test_indices) = 1

\* C9: the train positions of pair k+1 are the train positions of pair k
\* followed by the test positions of pair k, so train sizes never shrink.
C9_PrefixChain ==
    \A k \in Pairs :
        k + 1 \in Pairs =>
            /\ yielded[k + 1].train_indices =
                   yielded[k].train_indices \o yielded[k].test_indices
            /\ Len(yielded[k].train_indices) <= Len(yielded[k + 1].train_indices)

C9_Witness ==
    /\ Len(yielded) >= 2
    /\ max_day_range >= 1
    /\ Len(yielded[1].train_indices) >= 1
    /\ Len(yielded[2].test_indices) >= 1

LastSeasonIndex == season_indices[Len(season_indices)]

SeasonSpan == Day(X, LastSeasonIndex) - Day(X, season_indices[1])

\* C10: no position from the last anchor up to the last season index is a
\* test position of any yielded pair, the last season index in particular,
\* and a season whose day span is below max_day_range yields no pair.
C10_TrailingWindowDropped ==
    pc \in {"running", "done"} =>
        /\ \A k \in Pairs : \A t \in Range(yielded[k].test_indices) :
               t < start_ind /\ t /= LastSeasonIndex
        /\ (pc = "done" /\ SeasonSpan < max_day_range) => yielded = <<>>

C10_Witness ==
    /\ pc = "done"
    /\ Len(yielded) >= 1
    /\ Len(yielded[Len(yielded)].test_indices) >= 1
    /\ start_ind < LastSeasonIndex

C10_WitnessNarrow ==
    pc = "done" /\ Len(season_indices) >= 2 /\ SeasonSpan < max_day_range

----------------------------------------------------------------------------
(* Properties of backtest, checked under SpecBacktest *)

\* the window has samples but no gap of max_day_range days opens in it
WindowTooNarrow ==
    /\ ~WindowEmpty
    /\ LET season == SeasonIndices(X, test_year) IN
       \A k \in 1..Len(season) :
           Day(X, season[k]) - Day(X, season[1]) < max_day_range

\* C4: a backtest on a data set whose splitter yields zero folds (season
\* window empty, or too narrow for a gap of max_day_range days) ends in an
\* error and never returns normally with an empty backtest_results_.
C4_FailsOnZeroFolds ==
    (bt /= "none" /\ (WindowEmpty \/ WindowTooNarrow)) =>
        bt \in {"IndexError", "ValueError"}

----------------------------------------------------------------------------
(* Properties of the capital simulation, checked under SpecStats *)

Rows == 1..Len(statistics)

CreditBuffer == RPow(bet_factor, credit_exponent)

\* the stake in force when fold k started
StakeBefore(k) == IF k = 1 THEN One ELSE statistics[k - 1].bet_amount

\* C5: in every emitted row bet_amount is at most the row's capital plus
\* bet_factor^credit_exponent.
C5_CreditCeiling ==
    \A k \in Rows :
        ~RLess(RAdd(statistics[k].capital, CreditBuffer), statistics[k].bet_amount)

\* a losing fold whose raised stake was cut down to the ceiling
C5_Witness ==
    \E k \in Rows :
        /\ RLess(statistics[k].profit, Zero)
        /\ statistics[k].bet_amount = RAdd(statistics[k].capital, CreditBuffer)
        /\ RLess(statistics[k].bet_amount, RMul(StakeBefore(k), bet_factor))
        /\ RLess(Zero, statistics[k].bet_amount)

SimulationOver == spc \in {"finish", "done", "ZeroDivisionError"}

\* C6: no row before the last has bet_amount 0; when the loop is over the
\* rows stop at the first fold that left bet_amount at 0, or else there is
\* one row per fold: fewer rows than folds exactly when the last row has
\* bet_amount 0 and folds remain after it.
C6_StopsAtRuin ==
    /\ \A k \in Rows : k < Len(statistics) => statistics[k].bet_amount /= Zero
    /\ Len(statistics) <= Len(backtest_results_)
    /\ spc = "loop" => Len(statistics) = fold_no - 1
    /\ SimulationOver =>
          (Len(statistics) < Len(backtest_results_)
              <=> /\ Len(statistics) >= 1
                  /\ statistics[Len(statistics)].bet_amount = Zero
                  /\ Len(statistics) < Len(backtest_results_))
    /\ (SimulationOver /\ \A k \in Rows : statistics[k].bet_amount /= Zero)
          => Len(statistics) = Len(backtest_results_)

\* ruin at the second of three folds
C6_Witness ==
    /\ spc = "done"
    /\ Len(backtest_results_) = 3
    /\ Len(statistics) = 2
    /\ statistics[2].bet_amount = Zero

\* C7: every emitted row has bet_amount >= 0.
C7_StakeNonNegative ==
    \A k \in Rows : ~RLess(statistics[k].bet_amount, Zero)

NoBets(fold) == \A j \in 1..Len(fold.y_pred) : fold.y_pred[j] <= 0

\* C11: when no fold has a prediction above 0, every emitted row has
\* profit 0, capital 1, bet_amount 1 and an undefined precision, the loop
\* visits every fold, and the mean precision is undefined.
C11_NoBetsNoChange ==
    (\A k \in 1..Len(backtest_results_) : NoBets(backtest_results_[k])) =>
        /\ \A k \in Rows :
              /\ statistics[k].profit = Zero
              /\ statistics[k].capital = One
              /\ statistics[k].bet_amount = One
              /\ statistics[k].n_bets = 0
              /\ statistics[k].precision = "nan"
        /\ SimulationOver => Len(statistics) = Len(backtest_results_)
        /\ spc = "done" => precision_ = "nan"

C11_Witness ==
    /\ spc = "done"
    /\ Len(statistics) = 3
    /\ \A k \in 1..Len(backtest_results_) : NoBets(backtest_results_[k])
    /\ \E k \in 1..Len(backtest_results_) : Len(backtest_results_[k].y_pred) > 0

\* C12: the profit of fold k is the per-bet score of fold k times the stake
\* left by fold k-1 (1 for the first fold). With bet_factor 2 and
\* credit_exponent 1, a first-fold profit of -1/2 gives capital 1/2 and
\* bet_amount 2, and the profit of fold 2 is twice its per-bet score.
C12_StakeInForce ==
    /\ \A k \in Rows :
          IF statistics[k].n_bets > 0
          THEN RMul(statistics[k].profit, FromInt(statistics[k].n_bets))
                   = RMul(StakeBefore(k), FromInt(fold_scores[k]))
          ELSE statistics[k].profit = Zero
    /\ (/\ bet_factor = <<2, 1>>
        /\ credit_exponent = 1
        /\ Len(statistics) >= 1
        /\ statistics[1].profit = <<-1, 2>>) =>
           /\ statistics[1].capital = <<1, 2>>
           /\ statistics[1].bet_amount = <<2, 1>>
           /\ (Len(statistics) >= 2 /\ statistics[2].n_bets > 0) =>
                 statistics[2].profit =
                     RMul(<<2, 1>>, Rat(fold_scores[2], statistics[2].n_bets))

C12_Witness ==
    /\ bet_factor = <<2, 1>>
    /\ credit_exponent = 1
    /\ Len(statistics) >= 2
    /\ statistics[1].profit = <<-1, 2>>
    /\ statistics[2].n_bets > 0
    /\ fold_scores[2] /= 0

RMin(a, b) == IF RLess(b, a) THEN b ELSE a

CapitalBefore(k) == IF k = 1 THEN One ELSE statistics[k - 1].capital

\* C14: after a fold with negative profit the stake is the smaller of the
\* previous stake times bet_factor and the new capital plus
\* bet_factor^credit_exponent; after any other fold it is the smaller of 1
\* and that ceiling.
C14_StakeTransition ==
    \A k \in Rows :
        /\ statistics[k].capital = RAdd(CapitalBefore(k), statistics[k].profit)
        /\ statistics[k].bet_amount =
              RMin(IF RLess(statistics[k].profit, Zero)
                   THEN RMul(StakeBefore(k), bet_factor)
                   ELSE One,
                   RAdd(statistics[k].capital, CreditBuffer))

\* a fold without bets right after a loss that had raised the stake
C14_Witness ==
    \E k \in Rows :
        /\ k > 1
        /\ statistics[k].n_bets = 0
        /\ RLess(statistics[k - 1].profit, Zero)
        /\ RLess(One, statistics[k - 1].bet_amount)
        /\ statistics[k].bet_amount = One

\* every processed fold with bets has a per-bet score of at least -1
LossesBounded ==
    \A k \in Rows :
        statistics[k].n_bets > 0 => fold_scores[k] >= -statistics[k].n_bets

Floor == RMul(FromInt(-1), CreditBuffer)

RECURSIVE StackedTest(_)
StackedTest(n) ==
    IF n = 0 THEN <<>> ELSE backtest_results_[n].y_test \o StackedTest(n - 1)

RECURSIVE StackedPred(_)
StackedPred(n) ==
    IF n = 0 THEN <<>> ELSE backtest_results_[n].y_pred \o StackedPred(n - 1)

\* C13: the arrays handed to total_profit_score for profit_per_bet hold
\* exactly the elements of the folds that got a row (the halting fold
\* included, later folds excluded), label j beside prediction j, and the
\* divisor is their number; each row still describes its own fold, in fold
\* order, whatever the order of the stacked arrays.
C13_AggregateInputs ==
    /\ y_test_all = StackedTest(Len(statistics))
    /\ y_pred_all = StackedPred(Len(statistics))
    /\ Len(y_test_all) = Len(y_pred_all)
    /\ Len(y_pred_all) = SumSeq([k \in Rows |-> statistics[k].n_matches])
    /\ (spc = "done" /\ Len(y_pred_all) > 0) =>
          \E score \in (-MaxLoss)..1 :
              profit_per_bet_ = Rat(score, Len(y_pred_all))
    /\ \A k \in Rows :
          /\ statistics[k].n_matches = Len(backtest_results_[k].y_pred)
          /\ statistics[k].n_bets = SumSeq(Binarize(backtest_results_[k].y_pred))
          /\ statistics[k].capital = RAdd(CapitalBefore(k), statistics[k].profit)

\* ruin at the second of three folds of different sizes
C13_Witness ==
    /\ spc = "done"
    /\ Len(backtest_results_) = 3
    /\ Len(statistics) = 2
    /\ Len(backtest_results_[1].y_pred) = 1
    /\ Len(backtest_results_[2].y_pred) = 2
    /\ Len(backtest_results_[3].y_pred) >= 1
    /\ Len(y_pred_all) = 3

----------------------------------------------------------------------------
(* Further properties of the splitter, checked under Spec *)

\* C15: with max_day_range >= 1 every yielded test fold is non-empty and
\* the days of its positions differ by less than max_day_range.
C15_FoldSpan ==
    max_day_range >= 1 =>
        \A k \in Pairs :
            LET test == Range(yielded[k].test_indices) IN
            /\ test /= {}
            /\ \A i \in test : \A j \in test :
                   Day(X, i) - Day(X, j) < max_day_range

C15_Witness ==
    /\ max_day_range >= 2
    /\ \E k \in Pairs :
          \E i \in Range(yielded[k].test_indices) :
              \E j \in Range(yielded[k].test_indices) :
                  Day(X, i) - Day(X, j) = max_day_range - 1

\* where the test fold of pair k starts and ends: train_indices is
\* arange(0, start), so the fold starts at the length of train_indices
FoldStart(k) == Len(yielded[k].train_indices)
FoldEnd(k) == FoldStart(k) + Len(yielded[k].test_indices)

InWindow(day) ==
    day >= SeasonLength * (test_year - 1) /\ day < SeasonLength * test_year

\* C16: the test folds tile one contiguous range inside the season: each is
\* a run of consecutive positions, the first starts at the first season
\* index, each later one starts where the previous one ended, no two share
\* a position, and every test position has a day inside the season window.
C16_FoldsTileSeason ==
    \A k \in Pairs :
        /\ yielded[k].test_indices = Arange(FoldStart(k), FoldEnd(k))
        /\ k = 1 => FoldStart(k) = SeasonIndices(X, test_year)[1]
        /\ k > 1 => FoldStart(k) = FoldEnd(k - 1)
        /\ \A m \in Pairs :
               m /= k => Range(yielded[k].test_indices)
                             \cap Range(yielded[m].test_indices) = {}
        /\ \A t \in Range(yielded[k].test_indices) : InWindow(Day(X, t))

C16_Witness ==
    /\ pc = "done"
    /\ Len(yielded) >= 2
    /\ Len(yielded[1].test_indices) >= 1
    /\ Len(yielded[2].test_indices) >= 1
    /\ \E i \in 0..(Len(X) - 1) : ~InWindow(Day(X, i))

----------------------------------------------------------------------------
(* Further properties of backtest, checked under SpecBacktest *)

Before(a, b) == \A i \in Range(a) : \A j \in Range(b) : i < j

\* C17: in a fold run with a validation_size, the rows fitted on followed
\* by the validation rows are exactly the fold's train_indices, in order;
\* so every fitting row precedes every validation row, and every
\* validation row precedes every test row of the fold.
C17_ValidationTail ==
    \A k \in 1..Len(fit_log) :
        LET fold == SplitList(X, test_year, max_day_range).pairs[k] IN
        /\ fit_log[k].test = fold.test_indices
        /\ fit_log[k].validation_size /= <<>> =>
              /\ fit_log[k].fit \o fit_log[k].val = fold.train_indices
              /\ fit_log[k].val /= <<>>
              /\ Before(fit_log[k].fit, fit_log[k].val)
              /\ Before(fit_log[k].val, fit_log[k].test)
              /\ Before(fit_log[k].fit, fit_log[k].test)

C17_Witness ==
    /\ bt = "ok"
    /\ \E k \in 1..Len(fit_log) :
          /\ fit_log[k].validation_size /= <<>>
          /\ Len(fit_log[k].fit) >= 1
          /\ Len(fit_log[k].val) >= 1
          /\ Len(fit_log[k].test) >= 1

----------------------------------------------------------------------------
(* Properties of the splitter shared between calls, checked under SpecShared *)

IsPrefix(a, b) == Len(a) <= Len(b) /\ a = SubSeq(b, 1, Len(a))

\* C18: what one enumeration of split(X) yields depends on X, test_year and
\* max_day_range only: whatever other call on the splitter runs between two
\* of its yields, the pairs yielded so far are the first pairs of the full
\* enumeration of split(X), and an enumeration that ended has yielded all
\* of them.
C18_SameSequence ==
    LET full == SplitList(X, test_year, max_day_range) IN
    /\ IsPrefix(yielded, full.pairs)
    /\ SplitEnded =>
          /\ pc = (IF full.outcome = "ok" THEN "done" ELSE full.outcome)
          /\ yielded = full.pairs

====
